---- MODULE Spec2Model ----
(***************************************************************************)
(* python-lightblueclient: lightblueclient/__init__.py, class              *)
(* DataConnection.  One caller drives the (synchronous, single-threaded)   *)
(* client: it constructs the connections, calls find / insert / close on   *)
(* them and may use one of them in a `with` statement.  Every method call  *)
(* is one atomic action; `last` holds what the call did (the arguments     *)
(* handed to httplib, the number of response reads, the result) until the  *)
(* caller takes the result and goes on.                                    *)
(*                                                                         *)
(* Python values are modelled as follows.  A dict is a function from its   *)
(* keys to its values.  A str is a sequence of tokens.  The values passed  *)
(* as projection / query / range / sort / data are None, an empty          *)
(* container, or a non-empty value.  httplib (the transport, Python 2      *)
(* standard library) is the environment: whether sending succeeds and      *)
(* which response arrives is an input of each call.                        *)
(***************************************************************************)
EXTENDS Integers, Sequences, FiniteSets, TLC

VARIABLES
    url,            \* url[c]: the url connection c was constructed with
    path,           \* path[c]: self.path of connection c
    sock,           \* sock[c]: self.connection's socket, "none" or "open"
    closed,         \* closed[c]: close() has been called on c (history)
    findDefault,    \* the dict object bound to find's default `request={}`
    insertDefault,  \* the dict object bound to insert's default `request={}`
    last,           \* the call in progress / just finished, NoCall when idle
    scope           \* the caller's `with` statement

vars == <<url, path, sock, closed, findDefault, insertDefault, last, scope>>

-----------------------------------------------------------------------------
(* Bounds and program constants *)

MaxPathLen == 3

OK == 200

-----------------------------------------------------------------------------
(* Python values *)

Conns == {"c1", "c2"}

None == "None"
Empty == "{}"

\* bool(v) for the argument values
Truthy(v) == v \notin {None, Empty}

EmptyMap == [k \in {} |-> None]

\* d[k] = v on a dict
SetItem(d, k, v) == [x \in (DOMAIN d) \cup {k} |-> IF x = k THEN v ELSE d[x]]

\* the `request` argument: omitted, a dict, or a str
Omitted == [kind |-> "omitted", map |-> EmptyMap, text |-> <<>>]
Dict(m) == [kind |-> "dict", map |-> m, text |-> <<>>]
Str(s) == [kind |-> "str", map |-> EmptyMap, text |-> s]

\* bool(request) and len(request)
ReqLen(r) == IF r.kind = "str" THEN Len(r.text) ELSE Cardinality(DOMAIN r.map)
ReqTruthy(r) == ReqLen(r) > 0

\* an omitted `request` is bound to the function's one default dict object
BindRequest(arg, default) == IF arg.kind = "omitted" THEN Dict(default) ELSE arg

-----------------------------------------------------------------------------
(* Results of a call *)

NoOutcome ==
    [kind |-> "none", text |-> "", exc |-> "", status |-> 0, data |-> "", value |-> <<>>]

Returned(v) ==
    [kind |-> "return", text |-> "", exc |-> "", status |-> 0, data |-> "", value |-> <<v>>]

Raised(exc, text, status, data) ==
    [kind |-> "raise", text |-> text, exc |-> exc, status |-> status, data |-> data,
     value |-> <<>>]

\* request['k'] = v on a str
TypeErrorRaised == Raised("TypeError", "object does not support item assignment", 0, "")

\* raised by httplib / socket
TransportRaised == Raised("TransportError", "", 0, "")

-----------------------------------------------------------------------------
(* json *)

JsonBody == "{\"a\": 1}"
TextBody == "not found"

JsonDumps(m) == [text |-> <<>>, form |-> "json", obj |-> m]
RawBody(s) == [text |-> s, form |-> "str", obj |-> EmptyMap]
NoBody == [text |-> <<>>, form |-> "none", obj |-> EmptyMap]

JsonLoads(data) ==
    IF data = JsonBody
    THEN Returned([k \in {"a"} |-> 1])
    ELSE Raised("ValueError", "No JSON object could be decoded", 0, "")

JsonHeaders == [k \in {"Content-Type"} |-> "application/json"]

-----------------------------------------------------------------------------
(* URLs *)

PathChars == {"/", "d"}

RECURSIVE SeqsUpTo(_, _)
SeqsUpTo(S, n) ==
    IF n = 0 THEN {<<>>}
    ELSE LET shorter == SeqsUpTo(S, n - 1)
         IN shorter \cup {Append(s, x) : s \in {t \in shorter : Len(t) = n - 1}, x \in S}

\* the path component is empty or starts with "/"
UrlPaths == {p \in SeqsUpTo(PathChars, MaxPathLen) : p = <<>> \/ p[1] = "/"}

Urls == {<<"https", ":", "/", "/", "host.example">> \o p : p \in UrlPaths}

\* urlparse(u).path: what follows scheme "://" netloc
ParsedPath(u) ==
    IF Len(u) >= 4 /\ u[2] = ":" /\ u[3] = "/" /\ u[4] = "/"
    THEN LET rest == SubSeq(u, 5, Len(u))
             slashes == {i \in 1..Len(rest) : rest[i] = "/"}
         IN IF slashes = {} THEN <<>>
            ELSE SubSeq(rest, CHOOSE i \in slashes : \A j \in slashes : i <= j, Len(rest))
    ELSE u

EndsWithSlash(p) == Len(p) > 0 /\ p[Len(p)] = "/"

\* mutant: every trailing slash is stripped (rstrip('/'))
RECURSIVE StripAll(_)
StripAll(p) == IF EndsWithSlash(p) THEN StripAll(SubSeq(p, 1, Len(p) - 1)) ELSE p

BasePathStripsAll(u) == StripAll(ParsedPath(u))

\* DataConnection.__init__: self.path
BasePath(u) ==
    LET p == ParsedPath(u)
    IN IF EndsWithSlash(p) THEN SubSeq(p, 1, Len(p) - 1) ELSE p

FindPath(base, entity, version) == base \o <<"/", "find", "/", entity, "/", version>>

InsertPath(base, entity, version) == base \o <<"/", "insert", "/", entity, "/", version>>

-----------------------------------------------------------------------------
(* httplib: self.connection *)

\* what the network does during one call: whether the request can be sent,
\* whether a response can be read, and the response
Response(status, data) == [status |-> status, data |-> data, send |-> "ok", recv |-> "ok"]
SendFails == [status |-> 0, data |-> "", send |-> "fail", recv |-> "ok"]
ReadFails == [status |-> 0, data |-> "", send |-> "ok", recv |-> "fail"]

Statuses == {OK, 201, 404}
Bodies == {JsonBody, TextBody}

AllNets == {SendFails, ReadFails} \cup {Response(st, b) : st \in Statuses, b \in Bodies}

\* mutant: a connection without a socket refuses to send (NotConnected)
HttpSendNoReopen(s, net) ==
    IF s = "none" THEN [sock |-> "none", ok |-> FALSE]
    ELSE [sock |-> s, ok |-> net.send = "ok"]

\* HTTPConnection.request(): with no socket the connection connects first
\* (httplib's auto_open); connecting or sending may fail
HttpSend(s, net) ==
    IF s = "none"
    THEN IF net.send = "ok" THEN [sock |-> "open", ok |-> TRUE]
                            ELSE [sock |-> "none", ok |-> FALSE]
    ELSE [sock |-> s, ok |-> net.send = "ok"]

\* HTTPConnection.close()
HttpClose(s) == "none"

\* mutant: every 2xx status is taken as success
HandleResponseAny2xx(net) ==
    IF net.recv # "ok" THEN TransportRaised
    ELSE IF net.status >= 200 /\ net.status < 300
         THEN JsonLoads(net.data)
         ELSE Raised("RuntimeError", "HTTP code: {0}; body {1}", net.status, net.data)

\* DataConnection._handle_response
HandleResponse(net) ==
    IF net.recv # "ok" THEN TransportRaised
    ELSE IF net.status = OK
         THEN JsonLoads(net.data)
         ELSE Raised("RuntimeError", "HTTP code: {0}; body {1}", net.status, net.data)

\* mutant: the request is sent again after a response that is not OK
ExchangeRetries(s, net, method, p, body, headers) ==
    LET snd == HttpSend(s, net)
        rq == [path |-> p, method |-> method, body |-> body, headers |-> headers]
        again == snd.ok /\ net.recv = "ok" /\ net.status # OK
    IN [sock |-> snd.sock,
        requests |-> IF again THEN <<rq, rq>> ELSE <<rq>>,
        reads |-> IF snd.ok THEN (IF again THEN 2 ELSE 1) ELSE 0,
        outcome |-> IF snd.ok THEN HandleResponse(net) ELSE TransportRaised]

\* self.connection.request(method, path, body, headers);
\* return self._handle_response()
Exchange(s, net, method, p, body, headers) ==
    LET snd == HttpSend(s, net)
    IN [sock |-> snd.sock,
        requests |-> <<[path |-> p, method |-> method, body |-> body, headers |-> headers]>>,
        reads |-> IF snd.ok THEN 1 ELSE 0,
        outcome |-> IF snd.ok THEN HandleResponse(net) ELSE TransportRaised]

\* a call that raises before it reaches self.connection
NoExchange(s, outcome) ==
    [sock |-> s, requests |-> <<>>, reads |-> 0, outcome |-> outcome]

-----------------------------------------------------------------------------
(* DataConnection.find and DataConnection.insert *)

\* `if val: request[key] = val`; st.err: the assignment raised TypeError
StoreKey(st, key, val) ==
    IF st.err \/ ~Truthy(val) THEN st
    ELSE IF st.req.kind = "str" THEN [st EXCEPT !.err = TRUE]
    ELSE [st EXCEPT !.req = Dict(SetItem(st.req.map, key, val))]

\* mutant: sort is stored under the key of range
FindMergeSortAsRange(request, f) ==
    StoreKey(StoreKey(StoreKey(StoreKey([err |-> FALSE, req |-> request],
        "projection", f.projection), "query", f.query), "range", f.range), "range", f.sort)

\* find, lines 93-100
FindMerge(request, f) ==
    StoreKey(StoreKey(StoreKey(StoreKey([err |-> FALSE, req |-> request],
        "projection", f.projection), "query", f.query), "range", f.range), "sort", f.sort)

\* insert, lines 128-131
InsertMerge(request, data, projection) ==
    StoreKey(StoreKey([err |-> FALSE, req |-> request], "data", data),
        "projection", projection)

\* `if type(request) is not str: request = json.dumps(request)`
Serialize(r) == IF r.kind # "str" THEN JsonDumps(r.map) ELSE RawBody(r.text)

FindRun(base, s, default, entity, version, f, arg, net) ==
    LET request == BindRequest(arg, default)
        p == FindPath(base, entity, version)
        m == FindMerge(request, f)
    IN [req |-> m.req,
        io |-> IF m.err THEN NoExchange(s, TypeErrorRaised)
               ELSE IF ReqTruthy(m.req)
                    THEN Exchange(s, net, "POST", p, Serialize(m.req), JsonHeaders)
                    ELSE Exchange(s, net, "GET", p, NoBody, EmptyMap)]

\* `if data is None and len(request) == 0`
InsertRejects(request, data) == data = None /\ ReqLen(request) = 0

InsertRun(base, s, default, entity, version, data, projection, arg, net) ==
    LET request == BindRequest(arg, default)
        p == InsertPath(base, entity, version)
        m == InsertMerge(request, data, projection)
    IN IF InsertRejects(request, data)
       THEN [req |-> request,
             io |-> NoExchange(s, Raised("RuntimeError", "Must provide data or request", 0, ""))]
       ELSE [req |-> m.req,
             io |-> IF m.err THEN NoExchange(s, TypeErrorRaised)
                    ELSE Exchange(s, net, "PUT", p, Serialize(m.req), JsonHeaders)]

-----------------------------------------------------------------------------
(* State *)

NoFilters == [projection |-> None, query |-> None, range |-> None, sort |-> None]

NoCall ==
    [arg |-> Omitted, data |-> None, entity |-> "", version |-> "", net |-> SendFails,
     requests |-> <<>>, reads |-> 0, outcome |-> NoOutcome, op |-> "none", conn |-> "",
     filters |-> NoFilters, reqIn |-> Dict(EmptyMap), afterClose |-> FALSE,
     inBody |-> FALSE]

NoScope ==
    [conn |-> "", state |-> "none", target |-> "", exitCloses |-> 0,
     propagated |-> NoOutcome]

InitUrls(U) ==
    /\ url \in [Conns -> U]
    /\ path = [c \in Conns |-> BasePath(url[c])]
    /\ sock = [c \in Conns |-> "none"]
    /\ closed = [c \in Conns |-> FALSE]
    /\ findDefault = EmptyMap
    /\ insertDefault = EmptyMap
    /\ last = NoCall
    /\ scope = NoScope

Find(c, entity, version, f, arg, net) ==
    /\ last = NoCall
    /\ LET r == FindRun(path[c], sock[c], findDefault, entity, version, f, arg, net)
       IN /\ last' = [arg |-> arg, data |-> None, entity |-> entity, version |-> version,
                      net |-> net, requests |-> r.io.requests, reads |-> r.io.reads,
                      outcome |-> r.io.outcome, op |-> "find", conn |-> c,
                      filters |-> f, reqIn |-> BindRequest(arg, findDefault),
                      afterClose |-> closed[c], inBody |-> scope.state = "body"]
          /\ findDefault' = IF arg.kind = "omitted" THEN r.req.map ELSE findDefault
          /\ sock' = [sock EXCEPT ![c] = r.io.sock]
    /\ UNCHANGED <<url, path, closed, insertDefault, scope>>

Insert(c, entity, version, data, projection, arg, net) ==
    /\ last = NoCall
    /\ LET r == InsertRun(path[c], sock[c], insertDefault, entity, version, data,
                          projection, arg, net)
       IN /\ last' = [arg |-> arg, data |-> data, entity |-> entity, version |-> version,
                      net |-> net, requests |-> r.io.requests, reads |-> r.io.reads,
                      outcome |-> r.io.outcome, op |-> "insert", conn |-> c,
                      filters |-> [NoFilters EXCEPT !.projection = projection],
                      reqIn |-> BindRequest(arg, insertDefault),
                      afterClose |-> closed[c], inBody |-> scope.state = "body"]
          /\ insertDefault' = IF arg.kind = "omitted" THEN r.req.map ELSE insertDefault
          /\ sock' = [sock EXCEPT ![c] = r.io.sock]
    /\ UNCHANGED <<url, path, closed, findDefault, scope>>

\* DataConnection.close
Close(c) ==
    /\ last = NoCall
    /\ sock' = [sock EXCEPT ![c] = HttpClose(sock[c])]
    /\ closed' = [closed EXCEPT ![c] = TRUE]
    /\ UNCHANGED <<url, path, findDefault, insertDefault, last, scope>>

\* DataConnection.__enter__: the value `with conn as x` binds
Enter(self) == self

\* mutant: __exit__ does not close
ExitNoClose(s) == [sock |-> s, closes |-> 0, result |-> None]

\* DataConnection.__exit__: calls self.close() and returns None
Exit(s) == [sock |-> HttpClose(s), closes |-> 1, result |-> None]

\* `with c as x:` is entered
WithEnter(c) ==
    /\ last = NoCall
    /\ scope.state # "body"
    /\ scope' = [conn |-> c, state |-> "body", target |-> Enter(c), exitCloses |-> 0,
                 propagated |-> NoOutcome]
    /\ UNCHANGED <<url, path, sock, closed, findDefault, insertDefault, last>>

\* the with-body is left: normally, or by the exception the last call raised.
\* The exception goes on to the caller unless __exit__ returned a true value.
WithExit ==
    /\ scope.state = "body"
    /\ last = NoCall \/ last.outcome.kind = "raise"
    /\ LET c == scope.conn
           x == Exit(sock[c])
       IN /\ sock' = [sock EXCEPT ![c] = x.sock]
          /\ closed' = [closed EXCEPT ![c] = closed[c] \/ x.closes > 0]
          /\ scope' = [scope EXCEPT !.state = "exited",
                                    !.exitCloses = @ + x.closes,
                                    !.propagated = IF Truthy(x.result) THEN NoOutcome
                                                   ELSE last.outcome]
    /\ UNCHANGED <<url, path, findDefault, insertDefault, last>>

\* the caller takes the result of the call (a value, or an exception that is
\* not passing through a with-body) and goes on
Resume ==
    /\ last # NoCall
    /\ ~(scope.state = "body" /\ last.outcome.kind = "raise")
    /\ last' = NoCall
    /\ UNCHANGED <<url, path, sock, closed, findDefault, insertDefault, scope>>

-----------------------------------------------------------------------------
(* Inputs *)

Entities == {"Entity"}
Versions == {"1.0"}

ArgVals == {None, Empty, "new"}

AllFilters ==
    [projection : ArgVals, query : ArgVals, range : ArgVals, sort : ArgVals]

ProjectionOnly == {f \in AllFilters : f.query = None /\ f.range = None /\ f.sort = None}

StoredQuery == [k \in {"query", "other"} |-> "old"]
StoredData == [k \in {"data", "projection"} |-> "old"]

AllRequests ==
    {Omitted, Dict(EmptyMap), Dict(StoredQuery), Dict(StoredData), Str(<<>>), Str(<<"raw">>)}

FewRequests == {Omitted, Dict(EmptyMap), Str(<<"raw">>)}

FindCalls(F, R, N) ==
    \E c \in Conns, e \in Entities, v \in Versions, f \in F, arg \in R, net \in N :
        Find(c, e, v, f, arg, net)

InsertCalls(D, P, R, N) ==
    \E c \in Conns, e \in Entities, v \in Versions, d \in D, p \in P, arg \in R, net \in N :
        Insert(c, e, v, d, p, arg, net)

-----------------------------------------------------------------------------
(* Specifications *)

ServiceUrl == <<"https", ":", "/", "/", "host.example", "/", "d", "/">>

\* the connection's life: every network behaviour, close, the with statement
Init == InitUrls({ServiceUrl})

Next ==
    \/ FindCalls(ProjectionOnly, FewRequests, AllNets)
    \/ InsertCalls(ArgVals, {None}, FewRequests, AllNets)
    \/ \E c \in Conns : Close(c)
    \/ \E c \in Conns : WithEnter(c)
    \/ WithExit
    \/ Resume

Spec == Init /\ [][Next]_vars

\* building the request: every combination of arguments, one response
InitMerge == InitUrls({ServiceUrl})

NextMerge ==
    \/ FindCalls(AllFilters, AllRequests, {Response(OK, JsonBody)})
    \/ InsertCalls(ArgVals, ArgVals, AllRequests, {Response(OK, JsonBody)})
    \/ Resume

SpecMerge == InitMerge /\ [][NextMerge]_vars

\* the paths: every service URL
InitUrl == InitUrls(Urls)

NextUrl ==
    \/ FindCalls({NoFilters}, {Omitted}, {Response(OK, JsonBody)})
    \/ InsertCalls({"new"}, {None}, {Omitted}, {Response(OK, JsonBody)})
    \/ \E c \in Conns : Close(c)
    \/ Resume

SpecUrl == InitUrl /\ [][NextUrl]_vars

-----------------------------------------------------------------------------
(* Claims *)

FilterKeys == {"projection", "query", "range", "sort"}

NoFilterGiven == \A k \in FilterKeys : ~Truthy(last.filters[k])

\* `request` was omitted, or is an empty dict
EmptyMapping(arg) == arg.kind = "omitted" \/ (arg.kind = "dict" /\ arg.map = EmptyMap)

\* `request` was omitted or is empty (an empty dict, an empty str)
EmptyRequest(arg) == EmptyMapping(arg) \/ (arg.kind = "str" /\ arg.text = <<>>)

IsInvalidArgument(o) ==
    o.kind = "raise" /\ o.exc = "RuntimeError" /\ o.text = "Must provide data or request"

IsRequestError(o) ==
    o.kind = "raise" /\ o.exc = "RuntimeError" /\ o.text = "HTTP code: {0}; body {1}"

IsDecodeError(o) == o.kind = "raise" /\ o.exc = "ValueError"

Decoded == [k \in {"a"} |-> 1]

\* C1: a find call with no non-empty filter and an empty or omitted request
\* issues a GET with no body, and a find call with a non-empty filter or a
\* non-empty request issues a POST with a body, whatever calls came before.
C1_FindMethod ==
    last.op = "find" =>
        /\ Len(last.requests) = 1
        /\ IF NoFilterGiven /\ EmptyRequest(last.arg)
           THEN last.requests[1].method = "GET" /\ last.requests[1].body = NoBody
           ELSE last.requests[1].method = "POST" /\ last.requests[1].body # NoBody

\* C2: an insert call whose data is None or empty and whose request is an
\* empty mapping (explicit or omitted) fails with InvalidArgument and sends
\* nothing.
C2_InsertRejectsNoContent ==
    (last.op = "insert" /\ ~Truthy(last.data) /\ EmptyMapping(last.arg)) =>
        IsInvalidArgument(last.outcome) /\ last.requests = <<>>

\* C3: a call that omits request starts from an empty mapping: the body it
\* sends holds only the keys set from the call's own arguments.
C3_OmittedRequestIsFresh ==
    (last.op # "none" /\ last.arg.kind = "omitted") =>
        /\ last.reqIn.map = EmptyMap
        /\ \A i \in 1..Len(last.requests) :
              \A k \in DOMAIN last.requests[i].body.obj :
                  \/ k \in FilterKeys /\ Truthy(last.filters[k])
                  \/ k = "data" /\ Truthy(last.data)

\* C4: when request is a str, the call does not fail because of the filter,
\* data or projection arguments, and a body it sends is the str unchanged.
C4_RawRequestPassesThrough ==
    (last.op # "none" /\ last.arg.kind = "str") =>
        /\ last.outcome.exc # "TypeError"
        /\ \A i \in 1..Len(last.requests) :
              last.requests[i].body # NoBody =>
                  last.requests[i].body = RawBody(last.arg.text)

\* a response arrived during the last call
ResponseRead == last.op # "none" /\ last.reads > 0 /\ last.net.recv = "ok"

\* C5: once a request has been sent, status 200 makes the call return the
\* decoded body (or fail with DecodeError when the body is not JSON); every
\* other status makes it fail with a RequestError carrying the status and the
\* raw body.  No value is returned on another status, no RequestError on 200.
C5_ResponseContract ==
    /\ ResponseRead =>
        IF last.net.status = 200
        THEN IF last.net.data = "{\"a\": 1}"
             THEN last.outcome.kind = "return" /\ last.outcome.value = <<Decoded>>
             ELSE IsDecodeError(last.outcome)
        ELSE /\ IsRequestError(last.outcome)
             /\ last.outcome.status = last.net.status
             /\ last.outcome.data = last.net.data
             /\ last.outcome.value = <<>>
    /\ last.outcome.kind = "return" => ResponseRead /\ last.net.status = 200
    /\ IsRequestError(last.outcome) => ResponseRead /\ last.net.status # 200

C5_Witness ==
    /\ last.op = "insert"
    /\ last.net = Response(404, TextBody)
    /\ IsRequestError(last.outcome)
    /\ last.outcome.status = 404
    /\ last.outcome.data = "not found"

\* C6: entering the with statement binds the connection itself; leaving it,
\* normally or by a failed call, calls close() exactly once, and the failure
\* goes on to the caller.
C6_ScopedClose ==
    /\ scope.state = "body" => scope.target = scope.conn /\ scope.exitCloses = 0
    /\ scope.state = "exited" =>
        /\ scope.exitCloses = 1
        /\ closed[scope.conn]
        /\ (last.inBody /\ last.outcome.kind = "raise") =>
              scope.propagated = last.outcome

C6_Witness ==
    /\ scope.state = "exited"
    /\ scope.exitCloses = 1
    /\ last.inBody
    /\ last.op = "find"
    /\ last.outcome.kind = "raise"
    /\ scope.propagated = last.outcome
    /\ sock[scope.conn] = "none"

\* C7 as stated: after close(), every later call on the connection fails with
\* a connection error of the transport; nothing is sent, nothing returned.
C7_CallsAfterCloseFail ==
    (last.op # "none" /\ last.afterClose) =>
        /\ last.outcome.kind = "raise"
        /\ last.outcome.exc = "TransportError"
        /\ last.reads = 0

\* C7, amended: after close(), a DataConnection rejects no call of its own
\* accord.  A later find or insert hands its request to the transport as
\* before; the transport connects again on demand.  The call returns the
\* decoded value when the answer is 200 with a JSON body, and it fails with a
\* transport error only when sending or reading fails.
C7_CallsAfterCloseReconnect ==
    (last.op # "none" /\ last.afterClose) =>
        /\ last.outcome.exc = "TransportError" =>
              last.net.send = "fail" \/ last.net.recv = "fail"
        /\ (last.requests # <<>> /\ last.net = Response(200, JsonBody)) =>
              /\ last.outcome = Returned(Decoded)
              /\ sock[last.conn] = "open"
        /\ last.requests = <<>> =>
              IsInvalidArgument(last.outcome) \/ last.outcome.exc = "TypeError"

C7_Witness ==
    /\ last.op = "find"
    /\ last.afterClose
    /\ closed[last.conn]
    /\ last.outcome = Returned(Decoded)

\* the call got past the argument check of insert
PassedValidation == last.op = "find" \/ (last.op = "insert" /\ ~IsInvalidArgument(last.outcome))

\* C8 as stated: every find, and every insert that passes validation, sends
\* exactly one request and performs exactly one response read before it
\* returns or fails; nothing is sent again, and a failure is raised.
C8_ExactlyOneRequestAndRead ==
    PassedValidation =>
        /\ Len(last.requests) = 1
        /\ last.reads = 1
        /\ last.outcome.kind \in {"return", "raise"}
        /\ last.net # Response(200, JsonBody) => last.outcome.kind = "raise"

\* C8, amended: every find, and every insert that passes validation, hands at
\* most one request to the transport and performs at most one response read,
\* the read only after the request was sent; exactly one request unless the
\* call raised TypeError while building it, exactly one read unless nothing
\* was sent or sending failed.  Nothing is sent again after a non-200 status,
\* a decode failure or a transport failure, and every failure is raised to
\* the caller: a value is returned only after one request, one read and a
\* 200 response with a JSON body.
C8_AtMostOneRequestAndRead ==
    PassedValidation =>
        /\ Len(last.requests) <= 1
        /\ last.reads <= Len(last.requests)
        /\ Len(last.requests) = 1 <=> last.outcome.exc # "TypeError"
        /\ last.reads = 1 <=> (Len(last.requests) = 1 /\ last.net.send = "ok")
        /\ last.outcome.kind \in {"return", "raise"}
        /\ last.outcome.kind = "return" <=>
              /\ last.reads = 1
              /\ last.net = Response(200, JsonBody)

C8_Witness ==
    /\ last.op = "find"
    /\ last.net = SendFails
    /\ Len(last.requests) = 1
    /\ last.reads = 0
    /\ last.outcome.kind = "raise"

\* C9: for a find call with a mapping request, the body sent has, for each
\* non-empty filter, that key with exactly the supplied value (replacing the
\* value request had); each absent or empty filter leaves the key as it was in
\* request; all other keys of request are in the body unchanged.
C9_FindMergesFilters ==
    (last.op = "find" /\ last.reqIn.kind = "dict" /\ last.requests # <<>>) =>
        LET rq == last.requests[1]
            sent == rq.body.obj
            given == last.reqIn.map
        IN /\ \A k \in FilterKeys :
                IF Truthy(last.filters[k])
                THEN rq.method = "POST" /\ rq.body.form = "json"
                     /\ k \in DOMAIN sent /\ sent[k] = last.filters[k]
                ELSE /\ k \in DOMAIN sent <=> k \in DOMAIN given
                     /\ k \in DOMAIN given => sent[k] = given[k]
           /\ \A k \in (DOMAIN sent \cup DOMAIN given) \ FilterKeys :
                k \in DOMAIN sent /\ k \in DOMAIN given /\ sent[k] = given[k]

C9_Witness ==
    /\ last.op = "find"
    /\ last.arg = Dict(StoredQuery)
    /\ last.filters.query = "new"
    /\ last.filters.sort = "new"
    /\ last.filters.range = Empty
    /\ last.requests # <<>>
    /\ last.requests[1].body.obj =
          [k \in {"query", "sort", "other"} |-> IF k = "other" THEN "old" ELSE "new"]

\* the path component of a service url
UrlPathOf(u) == SubSeq(u, 6, Len(u))

\* C10: the base path is the url's path with exactly one trailing slash
\* removed if there is one; find targets {base}/find/{entity}/{version} and
\* insert {base}/insert/{entity}/{version}; no call changes the base path.
C10_Paths ==
    /\ \A c \in Conns :
          LET p == UrlPathOf(url[c])
          IN IF p # <<>> /\ p[Len(p)] = "/"
             THEN Append(path[c], "/") = p
             ELSE path[c] = p
    /\ \A i \in 1..Len(last.requests) :
          last.requests[i].path =
              UrlPathOf(url[last.conn]) \o
              (IF UrlPathOf(url[last.conn]) # <<>>
                  /\ UrlPathOf(url[last.conn])[Len(UrlPathOf(url[last.conn]))] = "/"
               THEN <<>> ELSE <<"/">>) \o
              <<last.op, "/", last.entity, "/", last.version>>

C10_Witness ==
    /\ last.op = "find"
    /\ url[last.conn] = <<"https", ":", "/", "/", "host.example", "/", "d", "/">>
    /\ closed[last.conn]
    /\ last.requests # <<>>
    /\ last.requests[1].path = <<"/", "d", "/", "find", "/", "Entity", "/", "1.0">>

====
